---- MODULE Spec2Model ----
(***************************************************************************)
(* Model of src/tools/csv.js: parseCSV (BOM strip, line-ending             *)
(* normalisation, the character scan loop with pushField / pushRow, the    *)
(* end-of-input handling, header selection and record building) and        *)
(* splitCSVLines.                                                          *)
(*                                                                         *)
(* A JavaScript string is modelled as a sequence of characters; every      *)
(* character is a one-element atom (a TLA+ string).  The loop index i is   *)
(* 0-based as in the source, so the character the loop reads is            *)
(* data[i + 1] in the 1-based sequence.                                    *)
(***************************************************************************)
EXTENDS Integers, Sequences, FiniteSets, TLC

(***************************************************************************)
(* Characters                                                              *)
(***************************************************************************)
LF  == "\n"
CR  == "\r"
Q   == "\""
NUL == "NUL"
BOM == "BOM"
TAB == "\t"
SP  == " "

\* options.delimiter || ','  and  options.commentChar || '#'  (defaults)
delimiter   == ","
commentChar == "#"

\* what data[k] evaluates to when k is outside the string
Undefined == "undefined"

\* String.prototype.trim strips these (white space and line terminators;
\* U+FEFF is white space for trim)
IsWs(c) == c \in {SP, TAB, LF, CR, BOM}

(***************************************************************************)
(* Bounds of the model                                                     *)
(***************************************************************************)
MaxLen     == 4
MaxContent == 3
MaxCols    == 2
MaxRows    == 2
MaxLoopLen == 3

(***************************************************************************)
(* String helpers                                                          *)
(***************************************************************************)
\* data[k] with a 0-based index k
CharAt(d, k) == IF k >= 0 /\ k < Len(d) THEN d[k + 1] ELSE Undefined

\* d.slice(from) / d.slice(from, to) with 0-based, end-exclusive indices
Slice(d, from, to) ==
    LET e == IF to > Len(d) THEN Len(d) ELSE to
    IN  IF e <= from THEN << >> ELSE SubSeq(d, from + 1, e)

RECURSIVE TrimStart(_)
TrimStart(s) ==
    IF s # << >> /\ IsWs(Head(s)) THEN TrimStart(Tail(s)) ELSE s

RECURSIVE TrimEnd(_)
TrimEnd(s) ==
    IF s # << >> /\ IsWs(s[Len(s)]) THEN TrimEnd(SubSeq(s, 1, Len(s) - 1)) ELSE s

\* String.prototype.trim
Trim(s) == TrimEnd(TrimStart(s))

\* s.replace(/""/g, '"'): left to right, non-overlapping
RECURSIVE UnescapeQuotes(_)
UnescapeQuotes(s) ==
    IF Len(s) >= 2 /\ s[1] = Q /\ s[2] = Q
    THEN << Q >> \o UnescapeQuotes(SubSeq(s, 3, Len(s)))
    ELSE IF s = << >> THEN << >>
    ELSE << s[1] >> \o UnescapeQuotes(Tail(s))

\* data.replace(/\r\n/g, '\n')
RECURSIVE ReplaceCRLF(_)
ReplaceCRLF(s) ==
    IF Len(s) >= 2 /\ s[1] = CR /\ s[2] = LF
    THEN << LF >> \o ReplaceCRLF(SubSeq(s, 3, Len(s)))
    ELSE IF s = << >> THEN << >>
    ELSE << s[1] >> \o ReplaceCRLF(Tail(s))

\* data.replace(/\r/g, '\n')
ReplaceCR(s) == [k \in 1..Len(s) |-> IF s[k] = CR THEN LF ELSE s[k]]

\* the mutant of NormalizeLineEndings: one pass that turns every \r into \n
NormalizeOnePass(s) == ReplaceCR(s)

\* line 28: the two passes, \r\n first
NormalizeLineEndings(s) == ReplaceCR(ReplaceCRLF(s))

\* lines 23-25
StripBOM(s) == IF CharAt(s, 0) = BOM THEN Slice(s, 1, Len(s)) ELSE s

\* lines 22-28
Preprocess(s) == NormalizeLineEndings(StripBOM(s))

(***************************************************************************)
(* The tokenizer of parseCSV as a transition function on its local state.  *)
(* A state s is a record                                                   *)
(*   [data, i, rows, row, field, inQuotes, lineStart, curLineNum].         *)
(* prevChar (line 37) is never read or assigned again and is left out.     *)
(***************************************************************************)
\* lines 31-38, on the preprocessed data
InitState(d) ==
    [data |-> d, i |-> 0, rows |-> << >>, row |-> << >>, field |-> << >>,
     inQuotes |-> FALSE, lineStart |-> TRUE, curLineNum |-> 1]

\* lines 46-52: strip one quote at each end and collapse doubled quotes
Unquote(f) ==
    IF Len(f) >= 2 /\ f[1] = Q /\ f[Len(f)] = Q
    THEN UnescapeQuotes(Slice(f, 1, Len(f) - 1))
    ELSE f

\* a mutant of pushField: the unquoted field is never trimmed
pushFieldNoTrim(s, trim) ==
    [s EXCEPT !.row = Append(s.row, Unquote(s.field)), !.field = << >>]

\* lines 40-55
pushField(s, trim) ==
    LET f == IF ~s.inQuotes /\ trim THEN Trim(s.field) ELSE s.field
    IN  [s EXCEPT !.row = Append(s.row, Unquote(f)), !.field = << >>]

\* s.startsWith(c) for a one-character c
StartsWith(f, c) == CharAt(f, 0) = c

\* a mutant of pushRow: only the blank rows are dropped
pushRowKeepComment(s) ==
    IF Len(s.row) = 1 /\ Trim(s.row[1]) = << >>
    THEN [s EXCEPT !.row = << >>]
    ELSE [s EXCEPT !.rows = Append(s.rows, s.row), !.row = << >>]

\* a mutant of pushRow: blank rows are pushed like any other row
pushRowKeepBlank(s) ==
    IF Len(s.row) > 0 /\ StartsWith(Trim(s.row[1]), commentChar)
    THEN [s EXCEPT !.row = << >>]
    ELSE [s EXCEPT !.rows = Append(s.rows, s.row), !.row = << >>]

\* lines 57-75
pushRow(s) ==
    IF Len(s.row) = 1 /\ (s.row[1] = << >> \/ Trim(s.row[1]) = << >>)
    THEN [s EXCEPT !.row = << >>]
    ELSE IF Len(s.row) > 0 /\ StartsWith(Trim(s.row[1]), commentChar)
    THEN [s EXCEPT !.row = << >>]
    ELSE [s EXCEPT !.rows = Append(s.rows, s.row), !.row = << >>]

\* line 82: the index of the next '\n' at or after k, or data.length
RECURSIVE SkipToNewline(_, _)
SkipToNewline(d, k) ==
    IF k < Len(d) /\ CharAt(d, k) # LF THEN SkipToNewline(d, k + 1) ELSE k

\* a mutant of OnComment: the skip also stops at a NUL
RECURSIVE SkipToNewlineOrNul(_, _)
SkipToNewlineOrNul(d, k) ==
    IF k < Len(d) /\ CharAt(d, k) \notin {LF, NUL}
    THEN SkipToNewlineOrNul(d, k + 1) ELSE k

OnCommentStopAtNul(s) ==
    [s EXCEPT !.i = SkipToNewlineOrNul(s.data, s.i) + 1,
              !.lineStart = TRUE,
              !.curLineNum = s.curLineNum + 1]

\* lines 80-87
OnComment(s) ==
    [s EXCEPT !.i = SkipToNewline(s.data, s.i) + 1,
              !.lineStart = TRUE,
              !.curLineNum = s.curLineNum + 1]

\* lines 89-94
OnDelimiter(s, trim) ==
    [pushField(s, trim) EXCEPT !.lineStart = FALSE, !.i = s.i + 1]

\* lines 96-103
OnNewline(s, trim) ==
    [pushRow(pushField(s, trim)) EXCEPT
        !.lineStart = TRUE, !.curLineNum = s.curLineNum + 1, !.i = s.i + 1]

\* a mutant of OnNul: the field is ended, the row is not
OnNulFieldOnly(s, trim) ==
    [pushField(s, trim) EXCEPT !.lineStart = TRUE, !.i = s.i + 1]

\* lines 105-112
OnNul(s, trim) ==
    [pushRow(pushField(s, trim)) EXCEPT !.lineStart = TRUE, !.i = s.i + 1]

\* a mutant of OnQuote: a quote read outside quotes always opens a quoted
\* field
OnQuoteAlwaysOpens(s) ==
    IF ~s.inQuotes
    THEN [s EXCEPT !.inQuotes = TRUE, !.field = Append(s.field, Q),
                   !.lineStart = FALSE, !.i = s.i + 1]
    ELSE IF CharAt(s.data, s.i + 1) = Q
         THEN [s EXCEPT !.field = Append(s.field, Q),
                        !.lineStart = FALSE, !.i = s.i + 2]
         ELSE [s EXCEPT !.inQuotes = FALSE, !.field = Append(s.field, Q),
                        !.lineStart = FALSE, !.i = s.i + 1]

\* lines 114-139
OnQuote(s) ==
    IF ~s.inQuotes
    THEN IF s.field = << >>
         THEN [s EXCEPT !.inQuotes = TRUE, !.field = Append(s.field, Q),
                        !.lineStart = FALSE, !.i = s.i + 1]
         ELSE [s EXCEPT !.field = Append(s.field, Q),
                        !.lineStart = FALSE, !.i = s.i + 1]
    ELSE IF CharAt(s.data, s.i + 1) = Q
         THEN [s EXCEPT !.field = Append(s.field, Q),
                        !.lineStart = FALSE, !.i = s.i + 2]
         ELSE [s EXCEPT !.inQuotes = FALSE, !.field = Append(s.field, Q),
                        !.lineStart = FALSE, !.i = s.i + 1]

\* a mutant of OnEmbeddedNewline: the next character is taken as a line start
OnEmbeddedNewlineLineStart(s) ==
    [s EXCEPT !.field = Append(s.field, LF), !.lineStart = TRUE,
              !.curLineNum = s.curLineNum + 1, !.i = s.i + 1]

\* a mutant of OnEmbeddedNewline: the position is not advanced
OnEmbeddedNewlineStuck(s) ==
    [s EXCEPT !.field = Append(s.field, LF), !.curLineNum = s.curLineNum + 1]

\* lines 141-147
OnEmbeddedNewline(s) ==
    [s EXCEPT !.field = Append(s.field, LF),
              !.curLineNum = s.curLineNum + 1, !.i = s.i + 1]

\* lines 149-152
OnOther(s) ==
    [s EXCEPT !.field = Append(s.field, CharAt(s.data, s.i)),
              !.lineStart = FALSE, !.i = s.i + 1]

\* a mutant of Branch: a newline ends the row also inside quotes
BranchNewlineAlways(s) ==
    LET c == CharAt(s.data, s.i)
    IN  IF s.lineStart /\ c = commentChar THEN "comment"
        ELSE IF ~s.inQuotes /\ c = delimiter THEN "delimiter"
        ELSE IF c = LF THEN "newline"
        ELSE IF ~s.inQuotes /\ c = NUL THEN "nul"
        ELSE IF c = Q THEN "quote"
        ELSE "other"

\* lines 78-152: which branch of the loop body handles data[i]
Branch(s) ==
    LET c == CharAt(s.data, s.i)
    IN  IF s.lineStart /\ c = commentChar THEN "comment"
        ELSE IF ~s.inQuotes /\ c = delimiter THEN "delimiter"
        ELSE IF ~s.inQuotes /\ c = LF THEN "newline"
        ELSE IF ~s.inQuotes /\ c = NUL THEN "nul"
        ELSE IF c = Q THEN "quote"
        ELSE IF c = LF /\ s.inQuotes THEN "embedded"
        ELSE "other"

\* lines 78-152: one iteration of the scan loop
Step(s, trim) ==
    CASE Branch(s) = "comment"   -> OnComment(s)
      [] Branch(s) = "delimiter" -> OnDelimiter(s, trim)
      [] Branch(s) = "newline"   -> OnNewline(s, trim)
      [] Branch(s) = "nul"       -> OnNul(s, trim)
      [] Branch(s) = "quote"     -> OnQuote(s)
      [] Branch(s) = "embedded"  -> OnEmbeddedNewline(s)
      [] OTHER                   -> OnOther(s)

\* lines 77-153: the whole loop
RECURSIVE Scan(_, _)
Scan(s, trim) == IF s.i < Len(s.data) THEN Scan(Step(s, trim), trim) ELSE s

\* a mutant of HandleLast: only a non-empty field buffer is looked at
HandleLastFieldOnly(s, trim) ==
    IF Len(s.field) > 0 THEN pushRow(pushField(s, trim)) ELSE s

\* lines 155-159
HandleLast(s, trim) ==
    IF Len(s.field) > 0 \/ Len(s.row) > 0
    THEN pushRow(pushField(s, trim))
    ELSE s

\* a mutant of StripTrailingRows: every trailing row of one field is removed
RECURSIVE StripTrailingShortRows(_)
StripTrailingShortRows(rs) ==
    IF Len(rs) > 0 /\ Len(rs[Len(rs)]) = 1
    THEN StripTrailingShortRows(SubSeq(rs, 1, Len(rs) - 1))
    ELSE rs

\* lines 161-164
RECURSIVE StripTrailingRows(_)
StripTrailingRows(rs) ==
    IF Len(rs) > 0 /\ Len(rs[Len(rs)]) = 1 /\ rs[Len(rs)][1] = << >>
    THEN StripTrailingRows(SubSeq(rs, 1, Len(rs) - 1))
    ELSE rs

\* lines 77-164: the rows parseCSV ends with when the loop is in state s
Finish(s, trim) == StripTrailingRows(HandleLast(Scan(s, trim), trim).rows)

\* lines 22-164: the rows parseCSV has when it starts on the headers
Tokenize(text, trim) == Finish(InitState(Preprocess(text)), trim)

(***************************************************************************)
(* Header selection and record building (lines 166-192).  A record (a      *)
(* JavaScript object) is a function from its keys to its values.           *)
(***************************************************************************)
\* Number -> decimal string, as 'field' + (j + 1) converts it
DigitChar(d) ==
    CASE d = 0 -> "0" [] d = 1 -> "1" [] d = 2 -> "2" [] d = 3 -> "3"
      [] d = 4 -> "4" [] d = 5 -> "5" [] d = 6 -> "6" [] d = 7 -> "7"
      [] d = 8 -> "8" [] d = 9 -> "9"

RECURSIVE ToDecimal(_)
ToDecimal(n) ==
    IF n < 10 THEN << DigitChar(n) >>
    ELSE Append(ToDecimal(n \div 10), DigitChar(n % 10))

\* line 178: 'field' + (j + 1)
FieldName(j) == << "f", "i", "e", "l", "d" >> \o ToDecimal(j + 1)

\* Math.max(...rows.map(r => r.length)) for a non-empty rows
RECURSIVE MaxRowLen(_)
MaxRowLen(rs) ==
    IF Len(rs) = 1 THEN Len(rs[1])
    ELSE LET m == MaxRowLen(Tail(rs))
         IN  IF Len(rs[1]) > m THEN Len(rs[1]) ELSE m

\* a mutant of GenericHeaders: the width of the first row instead of the
\* maximum over all rows
GenericHeadersFirstRow(rs) == [j \in 1..Len(rs[1]) |-> FieldName(j - 1)]

\* lines 176-178
GenericHeaders(rs) == [j \in 1..MaxRowLen(rs) |-> FieldName(j - 1)]

\* the key '__proto__': assigning a string to it on a plain object sets no
\* own property (the inherited setter ignores a value that is not an object)
ProtoKey == << "_", "_", "p", "r", "o", "t", "o", "_", "_" >>

\* obj[k] = v, for a string v
Put(obj, k, v) ==
    IF k = ProtoKey THEN obj
    ELSE [x \in (DOMAIN obj) \cup {k} |-> IF x = k THEN v ELSE obj[x]]

\* a mutant of FillObj: a row shorter than the headers gets no key for the
\* missing positions
RECURSIVE FillObjNoPad(_, _, _, _)
FillObjNoPad(obj, hs, r, j) ==
    IF j >= Len(hs) \/ j >= Len(r) THEN obj
    ELSE FillObjNoPad(Put(obj, hs[j + 1], r[j + 1]), hs, r, j + 1)

\* lines 187-189: the inner loop from position j on
RECURSIVE FillObj(_, _, _, _)
FillObj(obj, hs, r, j) ==
    IF j >= Len(hs) THEN obj
    ELSE FillObj(Put(obj, hs[j + 1], IF j < Len(r) THEN r[j + 1] ELSE << >>),
                 hs, r, j + 1)

\* lines 184-190: the record of row r; {} is the function with no keys
MakeObj(hs, r) == FillObj(<< >>, hs, r, 0)

(***************************************************************************)
(* Inputs                                                                  *)
(***************************************************************************)
Chars == {"a", SP, delimiter, LF, Q, commentChar, NUL}

Strs(S, n) == UNION {[1..k -> S] : k \in 0..n}

\* every string of at most MaxLen characters
ShortInputs == Strs(Chars, MaxLen)

\* strings written with \r and \r\n line breaks, and with a leading BOM
LineEndChars == {"a", Q, CR, LF}
LineEndInputs ==
    Strs(LineEndChars, MaxLen) \cup
    {<< BOM >> \o s : s \in Strs({"a", SP, commentChar}, MaxLen - 1)}

\* s with every quote character doubled
RECURSIVE DoubleQuotes(_)
DoubleQuotes(s) ==
    IF s = << >> THEN << >>
    ELSE (IF s[1] = Q THEN << Q, Q >> ELSE << s[1] >>) \o DoubleQuotes(Tail(s))

\* the quoted way of writing the content s
Quoted(s) == << Q >> \o DoubleQuotes(s) \o << Q >>

ContentChars == {"a", delimiter, LF, Q}
Contents == Strs(ContentChars, MaxContent)

\* a second field written in quotes, ending the input or followed by a newline
QuotedInputs ==
    {<< "a", delimiter >> \o Quoted(s) \o e : s \in Contents, e \in {<< >>, << LF >>}}

\* tables of unquoted cells, one line per row
Cells == {<< >>, << "a" >>}
RECURSIVE JoinCells(_)
JoinCells(r) ==
    IF Len(r) = 1 THEN r[1] ELSE r[1] \o << delimiter >> \o JoinCells(Tail(r))
RECURSIVE JoinLines(_)
JoinLines(ls) ==
    IF ls = << >> THEN << >> ELSE JoinCells(ls[1]) \o << LF >> \o JoinLines(Tail(ls))
TableRows == UNION {[1..k -> Cells] : k \in 1..MaxCols}
TableInputs == {JoinLines(ls) : ls \in UNION {[1..k -> TableRows] : k \in 1..MaxRows}}

\* the worked examples of the documentation
ExampleInputs ==
    { << Q, "a", Q, Q, "b", Q >>,
      << Q, "x", LF, "y", Q, delimiter, "z", LF >>,
      << commentChar, SP, "c", "o", "m", "m", "e", "n", "t", LF,
         "a", delimiter, "b", LF >>,
      << "a", delimiter, "b", LF, LF, LF, "c", delimiter, "d", LF >>,
      << "a", delimiter, "b", delimiter, "c", LF, "1", delimiter, "2", LF,
         "1", delimiter, "2", delimiter, "3", delimiter, "4", LF >>,
      << "1", delimiter, "2", LF, "3", delimiter, "4", LF >>,
      ProtoKey \o << delimiter, "a", LF, "1", delimiter, "2", LF >> }

Inputs == ShortInputs \cup LineEndInputs \cup QuotedInputs \cup TableInputs
              \cup ExampleInputs

(***************************************************************************)
(* The state machine: one parseCSV call                                    *)
(***************************************************************************)
VARIABLES
    pc,          \* where the call is: start, scan, last, strip, header, build, done
    input,       \* the argument data as passed by the caller
    trim,        \* options.trim !== false
    hasHeader,   \* line 20
    data, i, rows, row, field, inQuotes, lineStart, curLineNum,
    headers, ri, result,  \* ri is the index i of the loop of line 183
    spc,         \* where a splitCSVLines call is: idle (no call), split, done
    si, lines, cur, sInQuotes   \* i, lines, cur and inQuotes of splitCSVLines

splitVars == << spc, si, lines, cur, sInQuotes >>
scanVars == << data, i, rows, row, field, inQuotes, lineStart, curLineNum >>
optVars  == << input, trim, hasHeader >>
recVars  == << headers, ri, result >>
vars     == << pc, input, trim, hasHeader, data, i, rows, row, field, inQuotes,
               lineStart, curLineNum, headers, ri, result,
               spc, si, lines, cur, sInQuotes >>

\* the tokenizer's local state as a record
State ==
    [data |-> data, i |-> i, rows |-> rows, row |-> row, field |-> field,
     inQuotes |-> inQuotes, lineStart |-> lineStart, curLineNum |-> curLineNum]

Apply(s) ==
    /\ data' = s.data
    /\ i' = s.i
    /\ rows' = s.rows
    /\ row' = s.row
    /\ field' = s.field
    /\ inQuotes' = s.inQuotes
    /\ lineStart' = s.lineStart
    /\ curLineNum' = s.curLineNum

Init ==
    /\ pc = "start"
    /\ input \in Inputs
    /\ trim \in BOOLEAN
    /\ hasHeader \in BOOLEAN
    /\ data = input
    /\ i = 0
    /\ rows = << >>
    /\ row = << >>
    /\ field = << >>
    /\ inQuotes = FALSE
    /\ lineStart = TRUE
    /\ curLineNum = 1
    /\ headers = << >>
    /\ ri = 0
    /\ result = << >>
    /\ spc = "idle"
    /\ si = 0
    /\ lines = << >>
    /\ cur = << >>
    /\ sInQuotes = FALSE

\* lines 22-38
Prepare ==
    /\ pc = "start"
    /\ Apply(InitState(Preprocess(data)))
    /\ pc' = "scan"
    /\ UNCHANGED << optVars, splitVars, recVars >>

InLoop == pc = "scan" /\ i < Len(data)

\* lines 80-87
CommentLine ==
    /\ InLoop
    /\ Branch(State) = "comment"
    /\ Apply(OnComment(State))
    /\ UNCHANGED << pc, optVars, splitVars, recVars >>

\* lines 89-94
Delimiter ==
    /\ InLoop
    /\ Branch(State) = "delimiter"
    /\ Apply(OnDelimiter(State, trim))
    /\ UNCHANGED << pc, optVars, splitVars, recVars >>

\* lines 96-103
Newline ==
    /\ InLoop
    /\ Branch(State) = "newline"
    /\ Apply(OnNewline(State, trim))
    /\ UNCHANGED << pc, optVars, splitVars, recVars >>

\* lines 105-112
NulChar ==
    /\ InLoop
    /\ Branch(State) = "nul"
    /\ Apply(OnNul(State, trim))
    /\ UNCHANGED << pc, optVars, splitVars, recVars >>

\* lines 114-139
QuoteChar ==
    /\ InLoop
    /\ Branch(State) = "quote"
    /\ Apply(OnQuote(State))
    /\ UNCHANGED << pc, optVars, splitVars, recVars >>

\* lines 141-147
EmbeddedNewline ==
    /\ InLoop
    /\ Branch(State) = "embedded"
    /\ Apply(OnEmbeddedNewline(State))
    /\ UNCHANGED << pc, optVars, splitVars, recVars >>

\* lines 149-152
OtherChar ==
    /\ InLoop
    /\ Branch(State) = "other"
    /\ Apply(OnOther(State))
    /\ UNCHANGED << pc, optVars, splitVars, recVars >>

\* line 77: the loop condition fails
LoopExit ==
    /\ pc = "scan"
    /\ ~(i < Len(data))
    /\ pc' = "last"
    /\ UNCHANGED << optVars, splitVars, scanVars, recVars >>

\* lines 155-159
LastRecord ==
    /\ pc = "last"
    /\ Apply(HandleLast(State, trim))
    /\ pc' = "strip"
    /\ UNCHANGED << optVars, splitVars, recVars >>

\* lines 161-164
StripRows ==
    /\ pc = "strip"
    /\ rows' = StripTrailingRows(rows)
    /\ pc' = "header"
    /\ UNCHANGED << optVars, splitVars, recVars, data, i, row, field, inQuotes, lineStart,
                    curLineNum >>

\* line 167
ReturnEmpty ==
    /\ pc = "header"
    /\ Len(rows) = 0
    /\ result' = << >>
    /\ pc' = "done"
    /\ UNCHANGED << optVars, splitVars, scanVars, headers, ri >>

\* lines 169-179
Headers ==
    /\ pc = "header"
    /\ Len(rows) # 0
    /\ IF hasHeader
       THEN headers' = rows[1] /\ ri' = 1
       ELSE headers' = GenericHeaders(rows) /\ ri' = 0
    /\ pc' = "build"
    /\ UNCHANGED << optVars, splitVars, scanVars, result >>

\* lines 183-191: one iteration
BuildObject ==
    /\ pc = "build"
    /\ ri < Len(rows)
    /\ result' = Append(result, MakeObj(headers, rows[ri + 1]))
    /\ ri' = ri + 1
    /\ UNCHANGED << pc, optVars, splitVars, scanVars, headers >>

\* line 192
Return ==
    /\ pc = "build"
    /\ ~(ri < Len(rows))
    /\ pc' = "done"
    /\ UNCHANGED << optVars, splitVars, scanVars, recVars >>

Next ==
    \/ Prepare
    \/ CommentLine
    \/ Delimiter
    \/ Newline
    \/ NulChar
    \/ QuoteChar
    \/ EmbeddedNewline
    \/ OtherChar
    \/ LoopExit
    \/ LastRecord
    \/ StripRows
    \/ ReturnEmpty
    \/ Headers
    \/ BuildObject
    \/ Return

Spec == Init /\ [][Next]_vars

\* The call is a single sequential computation: it keeps running.  The
\* termination of the call is checked for the inputs of at most MaxLoopLen
\* characters and the worked examples.
LoopInputs == Strs(Chars, MaxLoopLen) \cup ExampleInputs
LoopInit == Init /\ input \in LoopInputs
FairSpec == LoopInit /\ [][Next]_vars /\ WF_vars(Next)

(***************************************************************************)
(* splitCSVLines (lines 196-223).  The function works on the data it is    *)
(* given, with no preprocessing.  Its state as a record:                   *)
(*   [data, i, lines, cur, inQuotes]                                       *)
(***************************************************************************)
\* lines 197-199
InitSplit(d) ==
    [data |-> d, i |-> 0, lines |-> << >>, cur |-> << >>, inQuotes |-> FALSE]

\* a push that keeps the blank lines too
pushLineAlways(s) == [s EXCEPT !.lines = Append(@, s.cur)]

\* lines 215 and 221: cur is kept when it is more than white space
pushLine(s) ==
    IF Trim(s.cur) # << >> THEN [s EXCEPT !.lines = Append(@, s.cur)] ELSE s

\* a mutant of OnSplitQuote: every quote toggles the flag, one at a time
OnSplitQuoteToggleOnly(s) ==
    [s EXCEPT !.inQuotes = ~s.inQuotes, !.cur = Append(@, Q), !.i = s.i + 1]

\* lines 203-210: an escaped quote inside quotes is stored as one quote and
\* both characters are consumed; any other quote toggles the flag and is kept
OnSplitQuote(s) ==
    IF s.inQuotes /\ CharAt(s.data, s.i + 1) = Q
    THEN [s EXCEPT !.cur = Append(@, Q), !.i = s.i + 2]
    ELSE [s EXCEPT !.inQuotes = ~s.inQuotes, !.cur = Append(@, Q),
                   !.i = s.i + 1]

\* a line end that consumes one character, whatever follows
OnSplitLineEndOneChar(s) ==
    [pushLine(s) EXCEPT !.cur = << >>, !.i = s.i + 1]

\* lines 211-216: a line end outside quotes; \r\n is consumed as one
OnSplitLineEnd(s) ==
    LET skip == IF CharAt(s.data, s.i) = CR /\ CharAt(s.data, s.i + 1) = LF
                THEN 2 ELSE 1
    IN  [pushLine(s) EXCEPT !.cur = << >>, !.i = s.i + skip]

\* lines 217-219
OnSplitOther(s) ==
    [s EXCEPT !.cur = Append(@, CharAt(s.data, s.i)), !.i = s.i + 1]

\* a branch choice that ends the line at every \n and \r
SplitBranchAnyLineEnd(s) ==
    LET c == CharAt(s.data, s.i)
    IN  IF c = Q THEN "quote"
        ELSE IF c = LF \/ c = CR THEN "lineEnd"
        ELSE "other"

\* lines 201-219: which branch of the loop body handles data[i]
SplitBranch(s) ==
    LET c == CharAt(s.data, s.i)
    IN  IF c = Q THEN "quote"
        ELSE IF (c = LF \/ c = CR) /\ ~s.inQuotes THEN "lineEnd"
        ELSE "other"

\* lines 200-220: one iteration
SplitStep(s) ==
    LET b == SplitBranch(s)
    IN  IF b = "quote" THEN OnSplitQuote(s)
        ELSE IF b = "lineEnd" THEN OnSplitLineEnd(s)
        ELSE OnSplitOther(s)

\* lines 200-220: the whole loop
RECURSIVE SplitScan(_)
SplitScan(s) == IF s.i >= Len(s.data) THEN s ELSE SplitScan(SplitStep(s))

\* lines 196-223
splitCSVLines(d) == pushLine(SplitScan(InitSplit(d))).lines

SplitState ==
    [data |-> input, i |-> si, lines |-> lines, cur |-> cur,
     inQuotes |-> sInQuotes]

SplitApply(s) ==
    /\ si' = s.i
    /\ lines' = s.lines
    /\ cur' = s.cur
    /\ sInQuotes' = s.inQuotes

\* lines 196-199: a call of splitCSVLines on the input
SplitInit ==
    /\ pc = "start"
    /\ input \in Inputs
    /\ trim = TRUE
    /\ hasHeader = TRUE
    /\ data = input
    /\ i = 0
    /\ rows = << >>
    /\ row = << >>
    /\ field = << >>
    /\ inQuotes = FALSE
    /\ lineStart = TRUE
    /\ curLineNum = 1
    /\ headers = << >>
    /\ ri = 0
    /\ result = << >>
    /\ spc = "split"
    /\ si = 0
    /\ lines = << >>
    /\ cur = << >>
    /\ sInQuotes = FALSE

\* line 200: the loop condition
InSplitLoop == spc = "split" /\ si < Len(input)

\* lines 202-210
SplitQuote ==
    /\ InSplitLoop
    /\ SplitBranch(SplitState) = "quote"
    /\ SplitApply(OnSplitQuote(SplitState))
    /\ UNCHANGED << spc, pc, optVars, scanVars, recVars >>

\* lines 211-216
SplitLineEnd ==
    /\ InSplitLoop
    /\ SplitBranch(SplitState) = "lineEnd"
    /\ SplitApply(OnSplitLineEnd(SplitState))
    /\ UNCHANGED << spc, pc, optVars, scanVars, recVars >>

\* lines 217-219
SplitOther ==
    /\ InSplitLoop
    /\ SplitBranch(SplitState) = "other"
    /\ SplitApply(OnSplitOther(SplitState))
    /\ UNCHANGED << spc, pc, optVars, scanVars, recVars >>

\* lines 221-222
SplitReturn ==
    /\ spc = "split"
    /\ si >= Len(input)
    /\ SplitApply(pushLine(SplitState))
    /\ spc' = "done"
    /\ UNCHANGED << pc, optVars, scanVars, recVars >>

SplitNext ==
    \/ SplitQuote
    \/ SplitLineEnd
    \/ SplitOther
    \/ SplitReturn

SplitSpec == SplitInit /\ [][SplitNext]_vars

(***************************************************************************)
(* Properties                                                              *)
(***************************************************************************)
\* the tokenizer has finished: rows is what the record builder is given
Tokenized == pc \in {"header", "build", "done"}

\* the input is the field "a", the delimiter, and the content s written in
\* quotes, followed by e
IsQuotedSecond(s, e) == input = << "a", delimiter >> \o Quoted(s) \o e

HasAdjacentQuotes(s) == \E k \in 1..(Len(s) - 1) : s[k] = Q /\ s[k + 1] = Q

\* C1: a non-first field written as a quote, the content s with every quote
\* doubled, and a closing quote, is stored with exactly the value s.
C1_QuotedFieldValue ==
    \A s \in Contents, e \in {<< >>, << LF >>} :
        (Tokenized /\ IsQuotedSecond(s, e)) => rows = << << << "a" >>, s >> >>

\* C1, for the contents in which no two quote characters are adjacent
C1_QuotedFieldValueNoAdjacent ==
    \A s \in Contents, e \in {<< >>, << LF >>} :
        (Tokenized /\ IsQuotedSecond(s, e) /\ ~HasAdjacentQuotes(s))
            => rows = << << << "a" >>, s >> >>

\* s contains none of the characters of S
NoneOf(s, S) == \A k \in 1..Len(s) : s[k] \notin S

\* the trim rule applied to a raw unquoted value
AfterTrimRule(v) == IF trim THEN Trim(v) ELSE v

\* C2 as stated: an input v without delimiter, newline and quote gives exactly
\* one row with the one field v (trimmed when trim is enabled).
C2_RoundTripAnyValue ==
    (Tokenized /\ NoneOf(input, {delimiter, LF, CR, Q}))
        => rows = << << AfterTrimRule(input) >> >>

\* the values the round trip holds for: also no NUL and no leading BOM, not
\* blank, and the first non-blank character is not the comment character
PlainValue(v) ==
    /\ NoneOf(v, {delimiter, LF, CR, Q, NUL})
    /\ CharAt(v, 0) # BOM
    /\ Trim(v) # << >>
    /\ ~StartsWith(Trim(v), commentChar)

\* C2 (amended): a plain value v as the whole input gives exactly one row with
\* the one field v, trimmed when trim is enabled and unchanged when it is not.
C2_UnquotedRoundTrip ==
    (Tokenized /\ PlainValue(input)) => rows = << << AfterTrimRule(input) >> >>

\* C2 witness: a plain value with surrounding blanks has been tokenized
C2_Witness ==
    /\ pc = "done"
    /\ PlainValue(input)
    /\ Trim(input) # input
    /\ \E k \in 1..Len(input) : input[k] = commentChar
    /\ rows = << << AfterTrimRule(input) >> >>

\* the loop is about to read the character c
Reading(c) == InLoop /\ CharAt(data, i) = c

\* the documentation's example  "x\ny",z\n
EmbeddedExample == << Q, "x", LF, "y", Q, delimiter, "z", LF >>

\* a step that finalizes a row: a row is emitted, or the row buffer is reset
RowFinalized == rows' # rows \/ Len(row') < Len(row)

\* C3: a newline read inside an open quoted field is appended to the field and
\* finalizes neither the field nor the row; a row is finalized only at an
\* unquoted newline, an unquoted NUL or the end of the input; and the example
\* "x\ny",z\n gives the one row ["x\ny", "z"].
C3_EmbeddedNewline ==
    /\ [][(Reading(LF) /\ inQuotes)
            => (/\ field' = Append(field, LF)
                /\ row' = row
                /\ rows' = rows
                /\ inQuotes')]_vars
    /\ [][RowFinalized
            => \/ ~inQuotes /\ (Reading(LF) \/ Reading(NUL))
               \/ pc = "last"]_vars
    /\ []((Tokenized /\ input = EmbeddedExample)
            => rows = << << << "x", LF, "y" >>, << "z" >> >> >>)

\* C3 witness: the example has been tokenized into its one row
C3_Witness ==
    /\ pc = "done"
    /\ input = EmbeddedExample
    /\ rows = << << << "x", LF, "y" >>, << "z" >> >> >>

\* the loop is about to skip a comment line
AtCommentLine == Reading(commentChar) /\ lineStart

\* d without the line that starts at index k, its newline included
WithoutLine(d, k) ==
    Slice(d, 0, k) \o Slice(d, SkipToNewline(d, k) + 1, Len(d))

\* the documentation's example  # comment\na,b\n
CommentExample ==
    << commentChar, SP, "c", "o", "m", "m", "e", "n", "t", LF,
       "a", delimiter, "b", LF >>

\* C4: a line whose first character is commentChar contributes no row; after
\* the skip the tokenizer is at line start, not in quotes, with empty field
\* and row buffers; the rows of the call are those of the text without that
\* line; and  # comment\na,b\n  gives the one row ["a","b"].
C4_CommentSuppression ==
    /\ [][AtCommentLine
            => (/\ rows' = rows
                /\ lineStart'
                /\ ~inQuotes'
                /\ field' = << >>
                /\ row' = << >>
                /\ i' = SkipToNewline(data, i) + 1)]_vars
    /\ [](AtCommentLine
            => Finish(State, trim)
                 = Finish(InitState(WithoutLine(data, i)), trim))
    /\ []((Tokenized /\ input = CommentExample)
            => rows = << << << "a" >>, << "b" >> >> >>)

\* C4 witness: a comment line holding a quote was skipped and the line after
\* it gave the only row
C4_Witness ==
    /\ pc = "done"
    /\ input = << commentChar, Q, LF, "a" >>
    /\ rows = << << << "a" >> >> >>

\* d with the text b inserted before index k
InsertAt(d, k, b) == Slice(d, 0, k) \o b \o Slice(d, k, Len(d))

\* one or more lines that are empty or hold only white space
BlankLines ==
    { << LF >>, << SP, LF >>, << TAB, SP, LF >>, << LF, LF >>,
      << SP, LF, LF, SP, SP, LF >> }

\* blank lines of which the last has no terminator, for the end of the input
UnterminatedBlankLines == { << SP >>, << LF, SP, TAB >>, << SP, LF, SP >> }

\* the documentation's example  a,b\n\n\nc,d\n
BlankExample ==
    << "a", delimiter, "b", LF, LF, LF, "c", delimiter, "d", LF >>

\* C5: blank lines (empty or white space only) put where a line starts (before,
\* between or after the lines of the text) add no row and leave the other
\* rows and their order unchanged, with trim enabled and disabled; and
\* a,b\n\n\nc,d\n  gives exactly ["a","b"] and ["c","d"].
C5_BlankLineSuppression ==
    /\ (pc = "scan" /\ lineStart /\ i <= Len(data))
          => /\ \A b \in BlankLines :
                   Finish(InitState(InsertAt(data, i, b)), trim)
                     = Finish(State, trim)
             /\ ~InLoop
                  => \A b \in UnterminatedBlankLines :
                       Finish(InitState(InsertAt(data, i, b)), trim)
                         = Finish(State, trim)
    /\ (Tokenized /\ input = BlankExample)
          => rows = << << << "a" >>, << "b" >> >>, << << "c" >>, << "d" >> >> >>

\* C5 witness: with trim disabled, a text with two rows around a blank line
\* holding a space has been tokenized into the two rows
C5_Witness ==
    /\ pc = "done"
    /\ ~trim
    /\ input = << "a", LF, SP, LF >>
    /\ rows = << << << "a" >> >> >>

\* s with every \n written as the line break nl
RECURSIVE WithLineBreak(_, _)
WithLineBreak(s, nl) ==
    IF s = << >> THEN << >>
    ELSE (IF s[1] = LF THEN nl ELSE << s[1] >>) \o WithLineBreak(Tail(s), nl)

\* the number of \r\n pairs of s
RECURSIVE CountCRLF(_)
CountCRLF(s) ==
    IF Len(s) < 2 THEN 0
    ELSE IF s[1] = CR /\ s[2] = LF THEN 1 + CountCRLF(SubSeq(s, 3, Len(s)))
    ELSE CountCRLF(Tail(s))

\* C6: a text written with \n line breaks gives the same rows when every line
\* break, inside or outside quotes, is written \r\n or \r instead; the
\* normalized data holds no \r and one newline, never two, for a \r\n pair.
C6_LineEndingIndependence ==
    /\ (pc = "header" /\ NoneOf(input, {CR}))
          => /\ Tokenize(WithLineBreak(input, << CR, LF >>), trim) = rows
             /\ Tokenize(WithLineBreak(input, << CR >>), trim) = rows
    /\ pc # "start"
          => /\ NoneOf(data, {CR})
             /\ Len(data) = Len(StripBOM(input)) - CountCRLF(input)

\* C6 witness: a \r\n inside an open quoted field became one newline of the
\* field
C6_Witness ==
    /\ pc = "done"
    /\ input = << Q, CR, LF, "a" >>
    /\ rows = << << << Q, LF, "a" >> >> >>

\* the logical lines of d: d cut at every newline that is outside quotes,
\* where a quote character opens or closes a quoted stretch (a doubled quote
\* closes and reopens it); ln is the line so far, inQ the quote state
RECURSIVE LinesFrom(_, _, _)
LinesFrom(d, ln, inQ) ==
    IF d = << >> THEN << ln >>
    ELSE IF d[1] = LF /\ ~inQ THEN << ln >> \o LinesFrom(Tail(d), << >>, FALSE)
    ELSE LinesFrom(Tail(d), Append(ln, d[1]), IF d[1] = Q THEN ~inQ ELSE inQ)

LogicalLines(d) == LinesFrom(d, << >>, FALSE)

\* how many elements of the sequence ls satisfy P
CountLines(ls, P(_)) == Cardinality({k \in 1..Len(ls) : P(ls[k])})

IsAnyLine(l) == TRUE
IsBlankLine(l) == Trim(l) = << >>
\* the line's very first character is the comment character
IsCommentLine(l) == StartsWith(l, commentChar)
\* the line's first non-blank character is the comment character
IsCommentLineAfterTrim(l) == StartsWith(Trim(l), commentChar)

C7_RowCountFirstChar ==
    (pc = "header" /\ NoneOf(data, {NUL, Q}))
        => Len(rows) = CountLines(LogicalLines(data), IsAnyLine)
                         - CountLines(LogicalLines(data), IsCommentLine)
                         - CountLines(LogicalLines(data), IsBlankLine)

StepsLeft ==
    CASE pc = "start"  -> 2 * (Len(data) + 1) + 7
      [] pc = "scan"   -> 2 * (Len(data) + 1 - i) + Len(rows) + 6
      [] pc = "last"   -> Len(rows) + 5
      [] pc = "strip"  -> Len(rows) + 3
      [] pc = "header" -> Len(rows) + 2
      [] pc = "build"  -> Len(rows) - ri + 1
      [] pc = "done"   -> 0

FieldOr(r, j) == IF j <= Len(r) THEN r[j] ELSE << >>

\* the last position at which the name h occurs in the header list hs
LastPos(hs, h) ==
    CHOOSE j \in 1..Len(hs) : hs[j] = h /\ \A k \in (j + 1)..Len(hs) : hs[k] # h

\* the call has returned with the first row as the header list
ReturnedWithHeader == pc = "done" /\ hasHeader /\ Len(rows) > 0

WidestRow(rs) ==
    CHOOSE n \in {Len(rs[k]) : k \in 1..Len(rs)} :
        \A k \in 1..Len(rs) : Len(rs[k]) <= n

\* the key fieldj, for j from 1 to 9
FieldKey(j) == << "f", "i", "e", "l", "d", DigitChar(j) >>

\* the documentation's example  1,2\n3,4\n
NoHeaderExample == << "1", delimiter, "2", LF, "3", delimiter, "4", LF >>

\* C10: without hasHeader every row, the first included, gives one record, in
\* order; every record has exactly the keys field1..fieldN, N the largest row
\* length, and maps fieldj to the row's field at position j, or to '' when
\* the row is shorter; and  1,2\n3,4\n  gives {field1:"1",field2:"2"} and
\* {field1:"3",field2:"4"}.
C10_SynthesizedHeaders ==
    /\ (pc = "done" /\ ~hasHeader /\ Len(rows) > 0)
          => /\ Len(result) = Len(rows)
             /\ \A k \in 1..Len(result) :
                   /\ DOMAIN result[k] = {FieldKey(j) : j \in 1..WidestRow(rows)}
                   /\ \A j \in 1..WidestRow(rows) :
                         result[k][FieldKey(j)] = FieldOr(rows[k], j)
    /\ (pc = "done" /\ ~hasHeader /\ input = NoHeaderExample)
          => result =
               << (<< "f", "i", "e", "l", "d", "1" >> :> << "1" >>
                     @@ << "f", "i", "e", "l", "d", "2" >> :> << "2" >>),
                  (<< "f", "i", "e", "l", "d", "1" >> :> << "3" >>
                     @@ << "f", "i", "e", "l", "d", "2" >> :> << "4" >>) >>

\* C10 witness: without hasHeader, a one-field row was padded to the width of
\* the two-field row after it
C10_Witness ==
    /\ pc = "done"
    /\ ~hasHeader
    /\ rows = << << << "a" >> >>, << << "a" >>, << "a" >> >> >>
    /\ result =
         << (<< "f", "i", "e", "l", "d", "1" >> :> << "a" >>
               @@ << "f", "i", "e", "l", "d", "2" >> :> << >>),
            (<< "f", "i", "e", "l", "d", "1" >> :> << "a" >>
               @@ << "f", "i", "e", "l", "d", "2" >> :> << "a" >>) >>

\* C11: for an input that does not end inside an open quoted field, the input
\* followed by one newline gives the same rows: the last record is kept when
\* the final newline is missing, a final newline adds no row, and an input
\* that ends with an unquoted delimiter ends its last row with an empty field.
C11_TrailingNewline ==
    /\ []((pc = "header" /\ ~inQuotes)
            => Tokenize(Append(input, LF), trim) = rows)
    /\ [][(pc = "last" /\ ~inQuotes /\ rows' # rows
             /\ CharAt(data, Len(data) - 1) = delimiter)
            => rows' = Append(rows, Append(row, << >>))]_vars

\* C11 witness: the input a, without a final newline gave the row ["a", ""]
C11_Witness ==
    /\ pc = "done"
    /\ input = << "a", delimiter >>
    /\ rows = << << << "a" >>, << >> >> >>


\* the number of quote characters among the first k characters of d
QuotesBefore(d, k) == Cardinality({j \in 1..k : d[j] = Q})

\* the positions up to position n of d that hold a line break inside quotes
QuotedBreaks(d, n) ==
    {k \in 1..n : d[k] \in {LF, CR} /\ QuotesBefore(d, k) % 2 = 1}

\* the number of line-break characters of the sequence s
BreakCount(s) == Cardinality({k \in 1..Len(s) : s[k] \in {LF, CR}})

\* the characters of the lines produced so far followed by the current line
RECURSIVE Flatten(_)
Flatten(ls) == IF ls = << >> THEN << >> ELSE Head(ls) \o Flatten(Tail(ls))

\* C12: splitCSVLines ends a line exactly at a \n or \r read while inQuotes
\* is false, an unquoted \r followed by \n being consumed as one boundary; a
\* \n or \r read while inQuotes is true is appended to the current line and
\* ends nothing.  So the line breaks held by the lines are exactly the ones
\* of the input that stand inside quotes.
C12_LineBoundaries ==
    /\ [](spc = "split"
            => BreakCount(Flatten(lines) \o cur)
                 = Cardinality(QuotedBreaks(input, si)))
    /\ [](spc = "done"
            => BreakCount(Flatten(lines))
                 = Cardinality(QuotedBreaks(input, Len(input))))
    /\ [][InSplitLoop =>
            LET c  == CharAt(input, si)
                lb == c \in {LF, CR}
            IN  /\ (lb /\ ~sInQuotes) =>
                     /\ cur' = << >>
                     /\ lines' \in {lines, Append(lines, cur)}
                     /\ si' = si + (IF c = CR /\ CharAt(input, si + 1) = LF
                                    THEN 2 ELSE 1)
                     /\ sInQuotes' = sInQuotes
                /\ (lb /\ sInQuotes) =>
                     /\ cur' = Append(cur, c)
                     /\ lines' = lines
                     /\ si' = si + 1
                     /\ sInQuotes' = sInQuotes
                /\ ~(lb /\ ~sInQuotes) =>
                     /\ lines' = lines
                     /\ Len(cur') = Len(cur) + 1
                     /\ SubSeq(cur', 1, Len(cur)) = cur]_vars

\* C12 witness: a quoted \n stays in the line, the unquoted one ends it
C12_Witness ==
    /\ spc = "done" /\ input = << Q, LF, Q, LF >>
    /\ lines = << << Q, LF, Q >> >>

\* a is an initial part of b
IsPrefix(a, b) == Len(a) <= Len(b) /\ SubSeq(b, 1, Len(a)) = a

\* the characters of a stand in b, in the same order
RECURSIVE IsSubsequence(_, _)
IsSubsequence(a, b) ==
    IF a = << >> THEN TRUE
    ELSE IF b = << >> THEN FALSE
    ELSE IF Head(a) = Head(b) THEN IsSubsequence(Tail(a), Tail(b))
    ELSE IsSubsequence(a, Tail(b))

\* C13: no line of splitCSVLines is empty or white space only; the text
\* accumulated after the last boundary is returned as the last line exactly
\* when it is non-blank, with no terminator needed; the lines are only ever
\* appended to, each one being the current line, so they are returned in the
\* order of the input.
C13_LineFilter ==
    /\ [](\A k \in 1..Len(lines) : Trim(lines[k]) # << >>)
    /\ [](spc = "done" => IsSubsequence(Flatten(lines), input))
    /\ [][(spc = "split" /\ spc' = "done")
            => lines' = IF Trim(cur) # << >> THEN Append(lines, cur)
                        ELSE lines]_vars
    /\ [][lines' = lines \/ lines' = Append(lines, cur)]_vars

\* C13 witness: the blank first line is dropped, the unterminated last line
\* is returned
C13_Witness ==
    /\ spc = "done" /\ input = << SP, LF, "a" >>
    /\ lines = << << "a" >> >>

\* v has no white space at either end
IsTrimmed(v) == v = << >> \/ (~IsWs(v[1]) /\ ~IsWs(v[Len(v)]))

\* the raw buffer f is a quote, some content, and a quote
FullyQuoted(f) == Len(f) >= 2 /\ f[1] = Q /\ f[Len(f)] = Q

NotQuote(c) == c # Q

\* the trim rule for the raw buffer f, closed with the flag inQ, and the
\* value v stored for it
TrimRule(f, inQ, v) ==
    /\ (NoneOf(f, {Q}) /\ trim) => (IsTrimmed(v) /\ v = Trim(f))
    /\ (NoneOf(f, {Q}) /\ ~trim) => v = f
    /\ (FullyQuoted(f) /\ ~inQ) =>
          SelectSeq(v, NotQuote)
              = SelectSeq(SubSeq(f, 2, Len(f) - 1), NotQuote)

\* C14: with trim enabled, the value stored for a raw buffer with no quote in
\* it has no white space at either end; the value stored for a fully quoted
\* buffer keeps every character between the quotes other than the quotes
\* themselves, white space included, whatever trim is; with trim false the
\* value stored for a buffer with no quote in it is the buffer itself.
C14_TrimRule ==
    /\ []((Tokenized /\ trim /\ NoneOf(input, {Q}))
            => \A r \in 1..Len(rows) : \A j \in 1..Len(rows[r]) :
                   IsTrimmed(rows[r][j]))
    /\ [][(pc \in {"scan", "last"} /\ Len(row') = Len(row) + 1)
            => TrimRule(field, inQuotes, row'[Len(row')])]_vars
    /\ [][(pc \in {"scan", "last"} /\ Len(rows') = Len(rows) + 1)
            => /\ rows'[Len(rows')] # << >>
               /\ TrimRule(field, inQuotes,
                           rows'[Len(rows')][Len(rows'[Len(rows')])])]_vars

\* C14 witness: the unquoted fields " a" and " " are stored as "a" and ""
C14_Witness ==
    /\ pc = "done" /\ trim /\ input = << SP, "a", delimiter, SP >>
    /\ rows = << << << "a" >>, << >> >> >>

\* the state of the scan loop on the data d when it has reached position k
\* (0-based) or has passed it
RECURSIVE RunTo(_, _)
RunTo(s, k) ==
    IF s.i >= k \/ s.i >= Len(s.data) THEN s ELSE RunTo(Step(s, trim), k)

\* the character at position k (0-based) of d is read by an iteration of the
\* loop (it is not skipped with a comment line or as the second quote of a
\* pair)
ReadAt(d, k) == RunTo(InitState(d), k).i = k

\* the value of inQuotes when the loop reaches or passes position k of d
InQuotesAt(d, k) == RunTo(InitState(d), k).inQuotes

\* d with the character at position k (0-based) replaced by c
ReplaceAt(d, k, c) == [d EXCEPT ![k + 1] = c]

\* C15 as stated: replacing any NUL that stands outside quotes by a newline
\* gives the same rows.
C15_NulAsNewlineAnywhere ==
    pc = "header" =>
        \A k \in 0..(Len(data) - 1) :
            (data[k + 1] = NUL /\ ~InQuotesAt(data, k))
                => Finish(InitState(ReplaceAt(data, k, LF)), trim) = rows

\* C15 (amended): a NUL read while not in quotes ends the field and the row
\* as a newline does and leaves the tokenizer at line start, so replacing by a
\* newline a NUL that an iteration reads outside quotes (one that is not
\* skipped with a comment line) gives the same rows; a NUL read while in
\* quotes is appended to the field and ends nothing.
C15_NulRecovery ==
    /\ [](pc = "header" =>
            \A k \in 0..(Len(data) - 1) :
                (data[k + 1] = NUL /\ ReadAt(data, k) /\ ~InQuotesAt(data, k))
                    => Finish(InitState(ReplaceAt(data, k, LF)), trim) = rows)
    /\ [][(Reading(NUL) /\ ~inQuotes) =>
            LET n == OnNewline(State, trim)
            IN  /\ rows' = n.rows /\ row' = << >> /\ field' = << >>
                /\ lineStart' /\ ~inQuotes' /\ i' = i + 1]_vars
    /\ [][(Reading(NUL) /\ inQuotes) =>
            /\ field' = Append(field, NUL)
            /\ rows' = rows /\ row' = row /\ inQuotes' /\ i' = i + 1]_vars

\* C15 witness: the NUL between two fields has made two rows of them
C15_Witness ==
    /\ pc = "done" /\ input = << "a", NUL, "a" >>
    /\ rows = << << << "a" >> >>, << << "a" >> >> >>

\* the rows of the input  a"  followed by e and a second a
MidFieldQuoteRows(e) ==
    IF e = delimiter THEN << << << "a", Q >>, << "a" >> >> >>
    ELSE << << << "a", Q >> >>, << << "a" >> >> >>

\* C16: a quote read while not in quotes with a non-empty field buffer is
\* appended to the buffer and leaves inQuotes false, so a delimiter or a
\* newline read next (as whenever inQuotes is false) ends the field or the
\* row; a quote read while not in quotes with an empty buffer sets inQuotes.
C16_MidFieldQuote ==
    /\ [](\A e \in {delimiter, LF} :
             (pc = "header" /\ input = << "a", Q, e, "a" >>)
                 => rows = MidFieldQuoteRows(e))
    /\ [][(Reading(Q) /\ ~inQuotes /\ field # << >>) =>
            /\ field' = Append(field, Q) /\ ~inQuotes'
            /\ rows' = rows /\ row' = row /\ i' = i + 1]_vars
    /\ [][(Reading(Q) /\ ~inQuotes /\ field = << >>) =>
            /\ field' = << Q >> /\ inQuotes'
            /\ rows' = rows /\ row' = row /\ i' = i + 1]_vars
    /\ [][(Reading(delimiter) /\ ~inQuotes /\ ~lineStart) =>
            /\ Len(row') = Len(row) + 1 /\ field' = << >> /\ rows' = rows]_vars
    /\ [][(Reading(LF) /\ ~inQuotes /\ ~lineStart) =>
            /\ row' = << >> /\ field' = << >> /\ lineStart'
            /\ rows' \in {rows, Append(rows, Append(row, Unquote(AfterTrimRule(field))))}]_vars

\* C16 witness: the quote after a is part of the first field, the delimiter
\* after it has ended that field
C16_Witness ==
    /\ pc = "done" /\ input = << "a", Q, delimiter, "a" >>
    /\ rows = << << << "a", Q >>, << "a" >> >> >>

\* C17: in every step of a call, the end-of-input handling and the removal of
\* trailing rows included, the rows emitted before the step are an initial
\* part of the rows after it, unchanged; the removal of trailing rows finds
\* nothing to remove.
C17_AppendOnly ==
    /\ [][IsPrefix(rows, rows')]_vars
    /\ [](pc = "strip" => StripTrailingRows(rows) = rows)

\* C17 witness: two rows were emitted and the trailing rows have been looked at
C17_Witness ==
    /\ pc = "header" /\ input = << "a", LF, "a", LF >>
    /\ rows = << << << "a" >> >>, << << "a" >> >> >>

\* the data the tokenizer scans for the input, and the number of characters
\* (the byte order mark) that stand before it in the input
TokData == Preprocess(input)
TokOffset == Len(input) - Len(TokData)

\* the state of the tokenizer's loop when it has read the input up to
\* position k of the input (0-based), or has passed it
TokAt(k) == RunTo(InitState(TokData), IF k > TokOffset THEN k - TokOffset ELSE 0)

\* the input has only \n line breaks, no NUL and no comment character
PlainLines == NoneOf(input, {CR, NUL, commentChar})

\* no quote is read by the tokenizer outside quotes with a non-empty buffer
NoMidFieldQuote ==
    \A k \in 0..(Len(TokData) - 1) :
        (TokData[k + 1] = Q /\ ReadAt(TokData, k) /\ ~InQuotesAt(TokData, k))
            => RunTo(InitState(TokData), k).field = << >>

\* the two scanners, both at position si of the input, have the same flag,
\* and the splitter ends a line there exactly when the tokenizer ends a row
SameQuoteTracking ==
    /\ sInQuotes = TokAt(si).inQuotes
    /\ si >= TokOffset => TokAt(si).i = si - TokOffset
    /\ InSplitLoop =>
         (SplitBranch(SplitState) = "lineEnd"
            <=> (si >= TokOffset /\ Branch(TokAt(si)) = "newline"))

\* C18 as stated: on every input with only \n line breaks, no NUL and no
\* comment character, the two scanners have the same inQuotes flag after each
\* character and find the same boundaries.
C18_SharedQuoteTrackingAnyInput ==
    (spc = "split" /\ PlainLines) => SameQuoteTracking

\* C18 (amended): on every such input in which no quote stands in the middle
\* of an unquoted field, the two scanners have the same inQuotes flag after
\* each character, and splitCSVLines ends a line exactly where the tokenizer
\* ends a row.
C18_SharedQuoteTracking ==
    (spc = "split" /\ PlainLines /\ NoMidFieldQuote) => SameQuoteTracking

\* C18 witness: splitCSVLines has split an input with a quoted second line
C18_Witness ==
    /\ spc = "done" /\ input = << "a", LF, Q, Q >>
    /\ PlainLines /\ NoMidFieldQuote
    /\ lines = << << "a" >>, << Q, Q >> >>

\* C19: at the top of every iteration of the scan loop, inQuotes and lineStart
\* are not both true, and when lineStart is true the field buffer and the row
\* buffer are empty; so the comment check is never taken inside a quoted field
\* or in the middle of a row.
C19_ParserFlags ==
    pc = "scan" =>
        /\ ~(inQuotes /\ lineStart)
        /\ lineStart => (field = << >> /\ row = << >>)
        /\ (InLoop /\ Branch(State) = "comment")
              => (~inQuotes /\ field = << >> /\ row = << >>)

\* C19 witness: a comment character after a newline inside quotes is about to
\* be read, and it is not at a line start
C19_Witness ==
    /\ pc = "scan" /\ Reading(commentChar) /\ inQuotes /\ ~lineStart
    /\ field = << Q, LF >>

\* r is a row of one empty or white-space field
IsBlankRow(r) == Len(r) = 1 /\ Trim(r[1]) = << >>

\* the first field of r, trimmed, begins with commentChar
IsCommentRow(r) == Len(r) > 0 /\ StartsWith(Trim(r[1]), commentChar)

\* C20: in every reachable state no output row is a single empty or
\* white-space field, and no output row has a first field that, trimmed,
\* begins with commentChar, quoted in the source or not; so the loop that
\* strips the trailing rows of one empty field removes no row.
C20_OutputRows ==
    /\ \A r \in 1..Len(rows) : ~IsBlankRow(rows[r]) /\ ~IsCommentRow(rows[r])
    /\ pc = "strip" =>
         ~(Len(rows) > 0 /\ Len(rows[Len(rows)]) = 1
              /\ rows[Len(rows)][1] = << >>)

\* C20 witness: the row a was kept, the row of one blank field after it was
\* dropped, and the trailing rows are about to be looked at
C20_Witness ==
    /\ pc = "strip" /\ ~trim /\ input = << "a", LF, SP >>
    /\ rows = << << << "a" >> >> >>

====
